---------------------------- MODULE Spec2Model ----------------------------
(***************************************************************************)
(* nom-sql/src/parser.rs: the SqlQuery sum type, its Display and           *)
(* query_type, the sql_query dispatcher and the parse_* entry points.      *)
(*                                                                         *)
(* Input text and byte slices are sequences of lexemes (strings): one      *)
(* whitespace lexeme, keyword lexemes in upper or lower case, identifier   *)
(* lexemes (bare, backtick-quoted, double-quoted) and one garbage lexeme.  *)
(* The statement sub-grammars and the statement nodes' renderers are       *)
(* collaborators of parser.rs that live in other files of the crate; they  *)
(* are modelled here from the specification (sections 2, 4.2, 4.4, 6).     *)
(***************************************************************************)
EXTENDS Integers, Sequences, FiniteSets, TLC

\* ------------------------------------------------------------------ bounds

\* Most whitespace lexemes put before, and after, an input.
MaxPad == 1

\* Most "UNION SELECT x" groups appended to an input.
MaxUnion == 1

\* ---------------------------------------------------------------- lexemes

Dialects == {"MySQL", "PostgreSQL"}

WS == " "

Garbage == "%"

\* The lower-case spelling of every keyword lexeme.
LowerOf ==
    "CREATE" :> "create" @@ "TABLE" :> "table" @@ "VIEW" :> "view" @@
    "CACHE" :> "cache" @@ "DROP" :> "drop" @@ "ALTER" :> "alter" @@
    "START" :> "start" @@ "TRANSACTION" :> "transaction" @@
    "INSERT" :> "insert" @@ "SELECT" :> "select" @@ "UNION" :> "union" @@
    "DELETE" :> "delete" @@ "UPDATE" :> "update" @@ "SET" :> "set" @@
    "COMMIT" :> "commit" @@ "ROLLBACK" :> "rollback" @@ "RENAME" :> "rename" @@
    "USE" :> "use" @@ "SHOW" :> "show" @@ "EXPLAIN" :> "explain" @@
    "KEY" :> "key"

UpperKeywords == DOMAIN LowerOf

\* A sequence of lexemes with every upper-case keyword put in lower case.
Lowered(s) ==
    [k \in DOMAIN s |-> IF s[k] \in UpperKeywords THEN LowerOf[s[k]] ELSE s[k]]

\* Case-insensitive match of one keyword (given in upper case) with a lexeme.
tag_no_case(W, lex) == lex = W \/ lex = LowerOf[W]

Names == {"t", "u"}

BareOf == [t |-> "t", u |-> "u"]

\* BQ(t) stands for the name t between backticks, DQ(t) for t between double
\* quotes.
BacktickOf == [t |-> "BQ(t)", u |-> "BQ(u)"]

DoubleOf == [t |-> "DQ(t)", u |-> "DQ(u)"]

\* ------------------------------------------------------- parser results

\* nom's IResult: Ok((remaining, output)) or Err(Error).
IOk(rem, out) == [ok |-> TRUE, rem |-> rem, out |-> out]

IErr == [ok |-> FALSE]

Rest(i, n) == SubSeq(i, n + 1, Len(i))

\* --------------------------------------- collaborators: the sub-grammars

\* Dialect::identifier: a bare identifier in either dialect, a quoted one in
\* the dialect's own quoting (backtick for MySQL, double quote for PostgreSQL).
identifier(dialect, i) ==
    IF i = <<>> THEN IErr
    ELSE IF \E n \in Names : i[1] = BareOf[n]
         THEN IOk(Rest(i, 1), CHOOSE n \in Names : i[1] = BareOf[n])
    ELSE IF dialect = "MySQL" /\ \E n \in Names : i[1] = BacktickOf[n]
         THEN IOk(Rest(i, 1), CHOOSE n \in Names : i[1] = BacktickOf[n])
    ELSE IF dialect = "PostgreSQL" /\ \E n \in Names : i[1] = DoubleOf[n]
         THEN IOk(Rest(i, 1), CHOOSE n \in Names : i[1] = DoubleOf[n])
    ELSE IErr

\* The keywords that open a statement of each node type.
KeywordsOf ==
    "CreateTableStatement" :> <<"CREATE", "TABLE">> @@
    "InsertStatement" :> <<"INSERT">> @@
    "CompoundSelectStatement" :> <<"SELECT">> @@
    "SelectStatement" :> <<"SELECT">> @@
    "DeleteStatement" :> <<"DELETE">> @@
    "DropTableStatement" :> <<"DROP", "TABLE">> @@
    "DropViewStatement" :> <<"DROP", "VIEW">> @@
    "UpdateStatement" :> <<"UPDATE">> @@
    "SetStatement" :> <<"SET">> @@
    "CreateViewStatement" :> <<"CREATE", "VIEW">> @@
    "CreateCacheStatement" :> <<"CREATE", "CACHE">> @@
    "DropCacheStatement" :> <<"DROP", "CACHE">> @@
    "AlterTableStatement" :> <<"ALTER", "TABLE">> @@
    "StartTransactionStatement" :> <<"START", "TRANSACTION">> @@
    "CommitStatement" :> <<"COMMIT">> @@
    "RollbackStatement" :> <<"ROLLBACK">> @@
    "RenameTableStatement" :> <<"RENAME">> @@
    "UseStatement" :> <<"USE">> @@
    "ShowStatement" :> <<"SHOW">> @@
    "ExplainStatement" :> <<"EXPLAIN">> @@
    "TableKey" :> <<"KEY">>

\* Whether the keywords of lead open the input, in either case: a sub-parser
\* fails at once on a keyword sequence that is not its own.
LeadMatches(lead, i) ==
    /\ Len(i) >= Len(lead)
    /\ \A k \in 1..Len(lead) : tag_no_case(lead[k], i[k])

\* A statement that is its leading keywords and nothing else.
BareStatement(type, i) ==
    IF LeadMatches(KeywordsOf[type], i)
    THEN IOk(Rest(i, Len(KeywordsOf[type])), [type |-> type, args |-> <<>>])
    ELSE IErr

\* A statement that is its leading keywords and one identifier.
Statement(type, dialect, i) ==
    IF ~LeadMatches(KeywordsOf[type], i) THEN IErr
    ELSE LET id == identifier(dialect, Rest(i, Len(KeywordsOf[type])))
         IN  IF id.ok THEN IOk(id.rem, [type |-> type, args |-> <<id.out>>])
             ELSE IErr

creation(dialect, i) == Statement("CreateTableStatement", dialect, i)

insertion(dialect, i) == Statement("InsertStatement", dialect, i)

selection(dialect, i) == Statement("SelectStatement", dialect, i)

\* The "UNION SELECT x" groups that open the input: the tables they select and
\* what is left of the input.
RECURSIVE other_selects(_, _, _)
other_selects(dialect, i, acc) ==
    IF i # <<>> /\ tag_no_case("UNION", i[1]) /\ selection(dialect, Rest(i, 1)).ok
    THEN LET s == selection(dialect, Rest(i, 1))
         IN  other_selects(dialect, s.rem, acc \o s.out.args)
    ELSE IOk(i, acc)

\* A first select and at least one more, each after UNION.
compound_selection(dialect, i) ==
    LET first == selection(dialect, i)
    IN  IF ~first.ok THEN IErr
        ELSE LET more == other_selects(dialect, first.rem, <<>>)
             IN  IF more.out = <<>> THEN IErr
                 ELSE IOk(more.rem, [type |-> "CompoundSelectStatement",
                                     args |-> first.out.args \o more.out])

deletion(dialect, i) == Statement("DeleteStatement", dialect, i)

drop_table(dialect, i) == Statement("DropTableStatement", dialect, i)

drop_view(dialect, i) == Statement("DropViewStatement", dialect, i)

updating(dialect, i) == Statement("UpdateStatement", dialect, i)

set(dialect, i) == Statement("SetStatement", dialect, i)

view_creation(dialect, i) == Statement("CreateViewStatement", dialect, i)

create_cached_query(dialect, i) == Statement("CreateCacheStatement", dialect, i)

drop_cached_query(dialect, i) == Statement("DropCacheStatement", dialect, i)

alter_table_statement(dialect, i) == Statement("AlterTableStatement", dialect, i)

start_transaction(dialect, i) == BareStatement("StartTransactionStatement", i)

commit(dialect, i) == BareStatement("CommitStatement", i)

rollback(dialect, i) == BareStatement("RollbackStatement", i)

rename_table(dialect, i) == Statement("RenameTableStatement", dialect, i)

use_statement(dialect, i) == Statement("UseStatement", dialect, i)

show(dialect, i) == Statement("ShowStatement", dialect, i)

\* explain_statement takes no dialect.
explain_statement(i) == BareStatement("ExplainStatement", i)

key_specification(dialect, i) == Statement("TableKey", dialect, i)

\* ---------------------------------------- collaborators: the renderers

\* The Display of a statement node: its keywords in upper case, its
\* identifiers between backticks whatever quoting the input used; the selects
\* of a compound select joined by UNION.
RECURSIVE RenderSelects(_)
RenderSelects(args) ==
    IF args = <<>> THEN <<>>
    ELSE <<"SELECT", BacktickOf[Head(args)]>>
         \o (IF Tail(args) = <<>> THEN <<>> ELSE <<"UNION">>)
         \o RenderSelects(Tail(args))

Render(type, node) ==
    IF type = "CompoundSelectStatement" THEN RenderSelects(node.args)
    ELSE KeywordsOf[type] \o [k \in DOMAIN node.args |-> BacktickOf[node.args[k]]]

\* ------------------------------------------------------------ SqlQuery

\* The variants of enum SqlQuery, in the order they are declared.
Variants ==
    <<"CreateTable", "CreateView", "CreateCache", "DropCache", "AlterTable",
      "Insert", "CompoundSelect", "Select", "Delete", "DropTable", "DropView",
      "Update", "Set", "StartTransaction", "Commit", "Rollback", "RenameTable",
      "Use", "Show", "Explain">>

VariantSet == {Variants[k] : k \in DOMAIN Variants}

\* The type of the node each variant owns.
PayloadOf ==
    "CreateTable" :> "CreateTableStatement" @@
    "CreateView" :> "CreateViewStatement" @@
    "CreateCache" :> "CreateCacheStatement" @@
    "DropCache" :> "DropCacheStatement" @@
    "AlterTable" :> "AlterTableStatement" @@
    "Insert" :> "InsertStatement" @@
    "CompoundSelect" :> "CompoundSelectStatement" @@
    "Select" :> "SelectStatement" @@
    "Delete" :> "DeleteStatement" @@
    "DropTable" :> "DropTableStatement" @@
    "DropView" :> "DropViewStatement" @@
    "Update" :> "UpdateStatement" @@
    "Set" :> "SetStatement" @@
    "StartTransaction" :> "StartTransactionStatement" @@
    "Commit" :> "CommitStatement" @@
    "Rollback" :> "RollbackStatement" @@
    "RenameTable" :> "RenameTableStatement" @@
    "Use" :> "UseStatement" @@
    "Show" :> "ShowStatement" @@
    "Explain" :> "ExplainStatement"

\* A value of the sum type: one variant owning one node.
Wrap(variant, node) == [variant |-> variant, node |-> node]

\* Equality as it would be if only the variants were compared.
SqlQueryEq_variant_only(a, b) == a.variant = b.variant

\* derive(PartialEq, Eq): the same variant, and equal payloads.
SqlQueryEq(a, b) == a.variant = b.variant /\ a.node = b.node

\* The variant's discriminant: its place in the declaration.
Discriminant(variant) == CHOOSE k \in DOMAIN Variants : Variants[k] = variant

\* derive(Hash): what is fed to the hasher, the discriminant and then the
\* payload's fields.
SqlQueryHash(q) == <<Discriminant(q.variant)>> \o q.node.args

\* fmt as it would be if the dispatch layer closed every statement with a
\* terminator of its own.
fmt_terminated(q) == Render(q.node.type, q.node) \o <<";">>

\* impl fmt::Display for SqlQuery: write!(f, "{}", node) in every arm.
fmt(q) ==
    CASE q.variant = "Select" -> Render("SelectStatement", q.node)
      [] q.variant = "Insert" -> Render("InsertStatement", q.node)
      [] q.variant = "CreateTable" -> Render("CreateTableStatement", q.node)
      [] q.variant = "CreateView" -> Render("CreateViewStatement", q.node)
      [] q.variant = "CreateCache" -> Render("CreateCacheStatement", q.node)
      [] q.variant = "DropCache" -> Render("DropCacheStatement", q.node)
      [] q.variant = "Delete" -> Render("DeleteStatement", q.node)
      [] q.variant = "DropTable" -> Render("DropTableStatement", q.node)
      [] q.variant = "DropView" -> Render("DropViewStatement", q.node)
      [] q.variant = "Update" -> Render("UpdateStatement", q.node)
      [] q.variant = "Set" -> Render("SetStatement", q.node)
      [] q.variant = "AlterTable" -> Render("AlterTableStatement", q.node)
      [] q.variant = "CompoundSelect" -> Render("CompoundSelectStatement", q.node)
      [] q.variant = "StartTransaction" ->
             Render("StartTransactionStatement", q.node)
      [] q.variant = "Commit" -> Render("CommitStatement", q.node)
      [] q.variant = "Rollback" -> Render("RollbackStatement", q.node)
      [] q.variant = "RenameTable" -> Render("RenameTableStatement", q.node)
      [] q.variant = "Use" -> Render("UseStatement", q.node)
      [] q.variant = "Show" -> Render("ShowStatement", q.node)
      [] q.variant = "Explain" -> Render("ExplainStatement", q.node)

\* query_type as it would be with the CreateView arm a copy of the
\* CreateTable arm.
query_type_copied_arm(q) ==
    CASE q.variant \in {"Select", "CompoundSelect"} -> <<"SELECT">>
      [] q.variant \in {"CreateTable", "CreateView"} -> <<"CREATE", "TABLE">>
      [] OTHER -> KeywordsOf[q.node.type]

\* SqlQuery::query_type: the string as the sequence of its words.
query_type(q) ==
    CASE q.variant = "Select" -> <<"SELECT">>
      [] q.variant = "Insert" -> <<"INSERT">>
      [] q.variant = "CreateTable" -> <<"CREATE", "TABLE">>
      [] q.variant = "CreateView" -> <<"CREATE", "VIEW">>
      [] q.variant = "CreateCache" -> <<"CREATE", "CACHE">>
      [] q.variant = "DropCache" -> <<"DROP", "CACHE">>
      [] q.variant = "Delete" -> <<"DELETE">>
      [] q.variant = "DropTable" -> <<"DROP", "TABLE">>
      [] q.variant = "DropView" -> <<"DROP", "VIEW">>
      [] q.variant = "Update" -> <<"UPDATE">>
      [] q.variant = "Set" -> <<"SET">>
      [] q.variant = "AlterTable" -> <<"ALTER", "TABLE">>
      [] q.variant = "CompoundSelect" -> <<"SELECT">>
      [] q.variant = "StartTransaction" -> <<"START", "TRANSACTION">>
      [] q.variant = "Commit" -> <<"COMMIT">>
      [] q.variant = "Rollback" -> <<"ROLLBACK">>
      [] q.variant = "RenameTable" -> <<"RENAME">>
      [] q.variant = "Use" -> <<"USE">>
      [] q.variant = "Show" -> <<"SHOW">>
      [] q.variant = "Explain" -> <<"EXPLAIN">>

\* ---------------------------------------------------------- dispatcher

\* The sub-parser of each name, run on an input.
SubParser(name, dialect, i) ==
    CASE name = "creation" -> creation(dialect, i)
      [] name = "insertion" -> insertion(dialect, i)
      [] name = "compound_selection" -> compound_selection(dialect, i)
      [] name = "selection" -> selection(dialect, i)
      [] name = "deletion" -> deletion(dialect, i)
      [] name = "drop_table" -> drop_table(dialect, i)
      [] name = "drop_view" -> drop_view(dialect, i)
      [] name = "updating" -> updating(dialect, i)
      [] name = "set" -> set(dialect, i)
      [] name = "view_creation" -> view_creation(dialect, i)
      [] name = "create_cached_query" -> create_cached_query(dialect, i)
      [] name = "drop_cached_query" -> drop_cached_query(dialect, i)
      [] name = "alter_table_statement" -> alter_table_statement(dialect, i)
      [] name = "start_transaction" -> start_transaction(dialect, i)
      [] name = "commit" -> commit(dialect, i)
      [] name = "rollback" -> rollback(dialect, i)
      [] name = "rename_table" -> rename_table(dialect, i)
      [] name = "use_statement" -> use_statement(dialect, i)
      [] name = "show" -> show(dialect, i)
      [] name = "explain_statement" -> explain_statement(i)
      [] name = "key_specification" -> key_specification(dialect, i)

\* nom's map(parser, variant): the parser's output wrapped, its remainder kept.
map(res, variant) ==
    IF res.ok THEN IOk(res.rem, Wrap(variant, res.out)) ELSE res

\* alt as it would be if a later success overrode an earlier one.
RECURSIVE alt_last_match(_, _, _)
alt_last_match(alternatives, dialect, i) ==
    IF alternatives = <<>> THEN IErr
    ELSE LET first == Head(alternatives)
             res == map(SubParser(first[1], dialect, i), first[2])
             later == alt_last_match(Tail(alternatives), dialect, i)
         IN  IF later.ok THEN later ELSE res

\* nom's alt: each alternative in turn on the same input, the first Ok
\* returned, Err when the last one fails.
RECURSIVE alt(_, _, _)
alt(alternatives, dialect, i) ==
    IF alternatives = <<>> THEN IErr
    ELSE LET first == Head(alternatives)
             res == map(SubParser(first[1], dialect, i), first[2])
         IN  IF res.ok THEN res ELSE alt(Tail(alternatives), dialect, i)

\* sql_query as it would be with the alter_table_statement alternative left
\* out of the list.
sql_query_without_alter(dialect, i) ==
    alt(<< <<"creation", "CreateTable">>,
           <<"insertion", "Insert">>,
           <<"compound_selection", "CompoundSelect">>,
           <<"selection", "Select">>,
           <<"deletion", "Delete">>,
           <<"drop_table", "DropTable">>,
           <<"drop_view", "DropView">>,
           <<"updating", "Update">>,
           <<"set", "Set">>,
           <<"view_creation", "CreateView">>,
           <<"create_cached_query", "CreateCache">>,
           <<"drop_cached_query", "DropCache">>,
           <<"start_transaction", "StartTransaction">>,
           <<"commit", "Commit">>,
           <<"rollback", "Rollback">>,
           <<"rename_table", "RenameTable">>,
           <<"use_statement", "Use">>,
           <<"show", "Show">>,
           <<"explain_statement", "Explain">> >>, dialect, i)

\* sql_query as it would be with selection tried before compound_selection.
sql_query_select_first(dialect, i) ==
    alt(<< <<"creation", "CreateTable">>,
           <<"insertion", "Insert">>,
           <<"selection", "Select">>,
           <<"compound_selection", "CompoundSelect">>,
           <<"deletion", "Delete">>,
           <<"drop_table", "DropTable">>,
           <<"drop_view", "DropView">>,
           <<"updating", "Update">>,
           <<"set", "Set">>,
           <<"view_creation", "CreateView">>,
           <<"create_cached_query", "CreateCache">>,
           <<"drop_cached_query", "DropCache">>,
           <<"alter_table_statement", "AlterTable">>,
           <<"start_transaction", "StartTransaction">>,
           <<"commit", "Commit">>,
           <<"rollback", "Rollback">>,
           <<"rename_table", "RenameTable">>,
           <<"use_statement", "Use">>,
           <<"show", "Show">>,
           <<"explain_statement", "Explain">> >>, dialect, i)

sql_query(dialect, i) ==
    alt(<< <<"creation", "CreateTable">>,
           <<"insertion", "Insert">>,
           <<"compound_selection", "CompoundSelect">>,
           <<"selection", "Select">>,
           <<"deletion", "Delete">>,
           <<"drop_table", "DropTable">>,
           <<"drop_view", "DropView">>,
           <<"updating", "Update">>,
           <<"set", "Set">>,
           <<"view_creation", "CreateView">>,
           <<"create_cached_query", "CreateCache">>,
           <<"drop_cached_query", "DropCache">>,
           <<"alter_table_statement", "AlterTable">>,
           <<"start_transaction", "StartTransaction">>,
           <<"commit", "Commit">>,
           <<"rollback", "Rollback">>,
           <<"rename_table", "RenameTable">>,
           <<"use_statement", "Use">>,
           <<"show", "Show">>,
           <<"explain_statement", "Explain">> >>, dialect, i)

\* -------------------------------------------------------- entry points

\* Result<T, &'static str>.
Ok(o) == [ok |-> TRUE, val |-> o]

Err(msg) == [ok |-> FALSE, err |-> msg]

\* str::trim: the text without its leading and trailing whitespace.
RECURSIVE trim_start(_)
trim_start(t) == IF t # <<>> /\ Head(t) = WS THEN trim_start(Tail(t)) ELSE t

RECURSIVE trim_end(_)
trim_end(t) ==
    IF t # <<>> /\ t[Len(t)] = WS THEN trim_end(SubSeq(t, 1, Len(t) - 1)) ELSE t

trim(t) == trim_end(trim_start(t))

\* str::as_bytes: the text's own bytes; a lexeme is the bytes that spell it.
as_bytes(t) == t

parse_query_bytes(dialect, input) ==
    LET r == sql_query(dialect, input)
    IN  IF r.ok THEN Ok(r.out) ELSE Err("failed to parse query")

\* parse_query as it would be without the trim.
parse_query_untrimmed(dialect, input) ==
    parse_query_bytes(dialect, as_bytes(input))

parse_query(dialect, input) == parse_query_bytes(dialect, as_bytes(trim(input)))

from_str(s) == parse_query("MySQL", s)

\* parse_select_statement_bytes as it would be without the is_empty guard.
parse_select_statement_bytes_any_rest(dialect, input) ==
    LET r == selection(dialect, input)
    IN  IF r.ok THEN Ok(r.out) ELSE Err("failed to parse query")

parse_select_statement_bytes(dialect, input) ==
    LET r == selection(dialect, input)
    IN  IF r.ok /\ r.rem = <<>> THEN Ok(r.out) ELSE Err("failed to parse query")

parse_select_statement(dialect, input) ==
    parse_select_statement_bytes(dialect, as_bytes(trim(input)))

parse_create_table_bytes(dialect, input) ==
    LET r == creation(dialect, input)
    IN  IF r.ok /\ r.rem = <<>> THEN Ok(r.out) ELSE Err("failed to parse query")

parse_create_table(dialect, input) ==
    parse_create_table_bytes(dialect, as_bytes(trim(input)))

\* parse_alter_table_bytes as it would be with an error of its own for what
\* is left over.
parse_alter_table_bytes_own_error(dialect, input) ==
    LET r == alter_table_statement(dialect, input)
    IN  IF ~r.ok THEN Err("failed to parse query")
        ELSE IF r.rem = <<>> THEN Ok(r.out)
        ELSE Err("trailing input")

parse_alter_table_bytes(dialect, input) ==
    LET r == alter_table_statement(dialect, input)
    IN  IF r.ok /\ r.rem = <<>> THEN Ok(r.out) ELSE Err("failed to parse query")

parse_alter_table(dialect, input) ==
    parse_alter_table_bytes(dialect, as_bytes(trim(input)))

\* parse_key_specification_bytes as it would be with its siblings' is_empty
\* guard.
parse_key_specification_bytes_strict(dialect, input) ==
    LET r == key_specification(dialect, input)
    IN  IF r.ok /\ r.rem = <<>> THEN Ok(r.out) ELSE Err("failed to parse query")

parse_key_specification_bytes(dialect, input) ==
    LET r == key_specification(dialect, input)
    IN  IF r.ok THEN Ok(r.out) ELSE Err("failed to parse query")

parse_key_specification_string(dialect, input) ==
    parse_key_specification_bytes(dialect, as_bytes(trim(input)))

\* --------------------------------------------------------------- inputs

RECURSIVE Repeat(_, _)
Repeat(s, n) == IF n = 0 THEN <<>> ELSE s \o Repeat(s, n - 1)

\* What an input opens with: nothing, one keyword, or a two-keyword lead
\* (those of the grammar and the near misses, such as CREATE TRANSACTION).
Heads ==
    {<<>>}
    \cup {<<v>> : v \in UpperKeywords \ {"TABLE", "VIEW", "CACHE", "TRANSACTION",
                                        "UNION"}}
    \cup {<<v, o>> : v \in {"CREATE", "DROP", "ALTER", "START"},
                     o \in {"TABLE", "VIEW", "CACHE", "TRANSACTION"}}

\* Then: no identifier, a bare one, or a quoted one in either quoting.
FirstArgs ==
    {<<>>} \cup {<<BareOf[n]>> : n \in Names}
           \cup {<<BacktickOf["t"]>>, <<DoubleOf["t"]>>}

\* Then: UNION SELECT u, up to MaxUnion times; then garbage, or not.
Cores ==
    {h \o a \o Repeat(<<"UNION", "SELECT", "u">>, k) \o g :
        h \in Heads, a \in FirstArgs, k \in 0..MaxUnion, g \in {<<>>, <<Garbage>>}}

\* Keywords all in upper case or all in lower case, and whitespace around.
Inputs ==
    {Repeat(<<WS>>, l) \o c \o Repeat(<<WS>>, r) :
        l \in 0..MaxPad, r \in 0..MaxPad,
        c \in Cores \cup {Lowered(c) : c \in Cores}}

\* The nodes of a type that can be built directly.
NodesOf(type) ==
    IF type \in {"StartTransactionStatement", "CommitStatement",
                 "RollbackStatement", "ExplainStatement"}
    THEN {[type |-> type, args |-> <<>>]}
    ELSE IF type = "CompoundSelectStatement"
    THEN {[type |-> type, args |-> <<n>> \o Repeat(<<"u">>, k)] :
              n \in Names, k \in 1..MaxUnion}
    ELSE {[type |-> type, args |-> <<n>>] : n \in Names}

\* The SqlQuery values that can be built directly: a variant owns a node of
\* its own payload type.
AllQueries ==
    UNION {{Wrap(v, n) : n \in NodesOf(PayloadOf[v])} : v \in VariantSet}

\* ------------------------------------------------------ the state machine

\* args holds the arguments at hand: a dialect and an input (text or bytes)
\* for the parsing operations, one SqlQuery for fmt and query_type, two for
\* the comparison. op is the operation applied to them ("none" before the
\* call) and ret what it returned: a behaviour is one call of one operation.
VARIABLES args, op, ret

vars == <<args, op, ret>>

NoRet == [ok |-> FALSE, err |-> "no call"]

Init ==
    /\ args \in {[kind |-> "parse", dialect |-> d, input |-> i] :
                     d \in Dialects, i \in Inputs}
           \cup {[kind |-> "query", q |-> q] : q \in AllQueries}
           \cup {[kind |-> "pair", a |-> a, b |-> b] :
                     a \in AllQueries, b \in AllQueries}
    /\ op = "none"
    /\ ret = NoRet

CallSqlQuery ==
    /\ args.kind = "parse" /\ op = "none"
    /\ op' = "sql_query"
    /\ ret' =
         sql_query(args.dialect, args.input)
    /\ UNCHANGED args

CallParseQueryBytes ==
    /\ args.kind = "parse" /\ op = "none"
    /\ op' = "parse_query_bytes"
    /\ ret' =
         parse_query_bytes(args.dialect, args.input)
    /\ UNCHANGED args

CallParseQuery ==
    /\ args.kind = "parse" /\ op = "none"
    /\ op' = "parse_query"
    /\ ret' =
         parse_query(args.dialect, args.input)
    /\ UNCHANGED args

CallFromStr ==
    /\ args.kind = "parse" /\ op = "none"
    /\ op' = "from_str"
    /\ ret' =
         from_str(args.input)
    /\ UNCHANGED args

CallParseSelectStatementBytes ==
    /\ args.kind = "parse" /\ op = "none"
    /\ op' = "parse_select_statement_bytes"
    /\ ret' =
         parse_select_statement_bytes(args.dialect, args.input)
    /\ UNCHANGED args

CallParseSelectStatement ==
    /\ args.kind = "parse" /\ op = "none"
    /\ op' = "parse_select_statement"
    /\ ret' =
         parse_select_statement(args.dialect, args.input)
    /\ UNCHANGED args

CallParseCreateTableBytes ==
    /\ args.kind = "parse" /\ op = "none"
    /\ op' = "parse_create_table_bytes"
    /\ ret' =
         parse_create_table_bytes(args.dialect, args.input)
    /\ UNCHANGED args

CallParseCreateTable ==
    /\ args.kind = "parse" /\ op = "none"
    /\ op' = "parse_create_table"
    /\ ret' =
         parse_create_table(args.dialect, args.input)
    /\ UNCHANGED args

CallParseAlterTableBytes ==
    /\ args.kind = "parse" /\ op = "none"
    /\ op' = "parse_alter_table_bytes"
    /\ ret' =
         parse_alter_table_bytes(args.dialect, args.input)
    /\ UNCHANGED args

CallParseAlterTable ==
    /\ args.kind = "parse" /\ op = "none"
    /\ op' = "parse_alter_table"
    /\ ret' =
         parse_alter_table(args.dialect, args.input)
    /\ UNCHANGED args

CallParseKeySpecificationBytes ==
    /\ args.kind = "parse" /\ op = "none"
    /\ op' = "parse_key_specification_bytes"
    /\ ret' =
         parse_key_specification_bytes(args.dialect, args.input)
    /\ UNCHANGED args

CallParseKeySpecificationString ==
    /\ args.kind = "parse" /\ op = "none"
    /\ op' = "parse_key_specification_string"
    /\ ret' =
         parse_key_specification_string(args.dialect, args.input)
    /\ UNCHANGED args

CallFmt ==
    /\ args.kind = "query" /\ op = "none"
    /\ op' = "fmt"
    /\ ret' = fmt(args.q)
    /\ UNCHANGED args

CallQueryType ==
    /\ args.kind = "query" /\ op = "none"
    /\ op' = "query_type"
    /\ ret' = query_type(args.q)
    /\ UNCHANGED args

\* a == b, and the two values hashed.
CallEqHash ==
    /\ args.kind = "pair" /\ op = "none"
    /\ op' = "eq_hash"
    /\ ret' = [eq |-> SqlQueryEq(args.a, args.b),
               hash_a |-> SqlQueryHash(args.a), hash_b |-> SqlQueryHash(args.b)]
    /\ UNCHANGED args

Next ==
    \/ CallSqlQuery
    \/ CallParseQueryBytes
    \/ CallParseQuery
    \/ CallFromStr
    \/ CallParseSelectStatementBytes
    \/ CallParseSelectStatement
    \/ CallParseCreateTableBytes
    \/ CallParseCreateTable
    \/ CallParseAlterTableBytes
    \/ CallParseAlterTable
    \/ CallParseKeySpecificationBytes
    \/ CallParseKeySpecificationString
    \/ CallFmt
    \/ CallQueryType
    \/ CallEqHash

Spec == Init /\ [][Next]_vars

\* ----------------------------------------------------------- properties

\* The statement kinds in the dispatcher's canonical order, and the
\* sub-parser of each kind.
CanonicalOrder ==
    <<"CreateTable", "Insert", "CompoundSelect", "Select", "Delete",
      "DropTable", "DropView", "Update", "Set", "CreateView", "CreateCache",
      "DropCache", "AlterTable", "StartTransaction", "Commit", "Rollback",
      "RenameTable", "Use", "Show", "Explain">>

ParserOf ==
    "CreateTable" :> "creation" @@ "Insert" :> "insertion" @@
    "CompoundSelect" :> "compound_selection" @@ "Select" :> "selection" @@
    "Delete" :> "deletion" @@ "DropTable" :> "drop_table" @@
    "DropView" :> "drop_view" @@ "Update" :> "updating" @@ "Set" :> "set" @@
    "CreateView" :> "view_creation" @@ "CreateCache" :> "create_cached_query" @@
    "DropCache" :> "drop_cached_query" @@
    "AlterTable" :> "alter_table_statement" @@
    "StartTransaction" :> "start_transaction" @@ "Commit" :> "commit" @@
    "Rollback" :> "rollback" @@ "RenameTable" :> "rename_table" @@
    "Use" :> "use_statement" @@ "Show" :> "show" @@
    "Explain" :> "explain_statement"

\* What the k-th sub-parser of the canonical order returns on an input.
Nth(k, dialect, i) == SubParser(ParserOf[CanonicalOrder[k]], dialect, i)

\* The places in the canonical order of the sub-parsers that succeed.
Succeeding(dialect, i) == {k \in DOMAIN CanonicalOrder : Nth(k, dialect, i).ok}

IsParse == args.kind = "parse"

\* C1: sql_query returns the output of the earliest sub-parser of the
\* canonical order that succeeds on the input as given, wrapped in that
\* sub-parser's variant, with that sub-parser's remainder; it fails exactly
\* when none of the 20 succeeds.
C1_FirstSuccessInOrder ==
    op = "sql_query" =>
        LET S == Succeeding(args.dialect, args.input)
        IN  IF S = {} THEN ~ret.ok
            ELSE LET k == CHOOSE k \in S : \A j \in S : k <= j
                     r == Nth(k, args.dialect, args.input)
                 IN  ret = IOk(r.rem, Wrap(CanonicalOrder[k], r.out))

\* Two sub-parsers succeed on the input and sql_query returned the earlier
\* one's output and remainder.
C1_Witness ==
    /\ op = "sql_query"
    /\ Cardinality(Succeeding(args.dialect, args.input)) = 2
    /\ ret.ok /\ ret.out.variant = "CompoundSelect" /\ ret.rem = <<Garbage>>

\* What a full-consumption entry point returns, given its sub-parser's
\* result: the node when the sub-parser succeeds and leaves nothing, the
\* error otherwise.
FullConsumption(r) ==
    /\ ret.ok <=> (r.ok /\ r.rem = <<>>)
    /\ ret.ok => ret = Ok(r.out)
    /\ ~ret.ok => "val" \notin DOMAIN ret

\* C2: parse_select_statement_bytes, parse_create_table_bytes and
\* parse_alter_table_bytes return Ok(node) exactly when their sub-parser
\* succeeds and leaves an empty remainder; a success that leaves something
\* yields an error and no node.
C2_FullConsumptionEnforced ==
    /\ op = "parse_select_statement_bytes" =>
           FullConsumption(selection(args.dialect, args.input))
    /\ op = "parse_create_table_bytes" =>
           FullConsumption(creation(args.dialect, args.input))
    /\ op = "parse_alter_table_bytes" =>
           FullConsumption(alter_table_statement(args.dialect, args.input))

\* selection succeeded and left something, and the entry point returned an
\* error.
C2_Witness ==
    /\ op = "parse_select_statement_bytes"
    /\ selection(args.dialect, args.input).ok
    /\ selection(args.dialect, args.input).rem # <<>>
    /\ ~ret.ok

\* What a remainder-ignoring entry point returns, given its parser's result.
IgnoresRemainder(r) ==
    /\ ret.ok <=> r.ok
    /\ ret.ok => ret = Ok(r.out)

\* C3: parse_query_bytes and parse_key_specification_bytes return Ok(node)
\* whenever sql_query, respectively key_specification, succeeds, whatever it
\* leaves, and an error only when it fails.
C3_RemainderIgnored ==
    /\ op = "parse_query_bytes" =>
           IgnoresRemainder(sql_query(args.dialect, args.input))
    /\ op = "parse_key_specification_bytes" =>
           IgnoresRemainder(key_specification(args.dialect, args.input))

\* key_specification succeeded and left something, and the entry point
\* returned its node.
C3_Witness ==
    /\ op = "parse_key_specification_bytes"
    /\ ret.ok
    /\ key_specification(args.dialect, args.input).rem # <<>>

\* The text between its first and its last lexeme that is not whitespace.
Trimmed(t) ==
    LET solid == {k \in DOMAIN t : t[k] # WS}
    IN  IF solid = {} THEN <<>>
        ELSE SubSeq(t, CHOOSE k \in solid : \A j \in solid : k <= j,
                       CHOOSE k \in solid : \A j \in solid : k >= j)

Padded(t) == <<WS>> \o t \o <<WS>>

\* C4: every text entry point returns what its byte counterpart returns on
\* the text without its leading and trailing whitespace, and so the same for
\* a text and for that text with more whitespace around it.
C4_TextIsTrimmedBytes ==
    /\ op = "parse_query" =>
           /\ ret = parse_query_bytes(args.dialect, Trimmed(args.input))
           /\ ret = parse_query(args.dialect, Padded(args.input))
    /\ op = "parse_select_statement" =>
           /\ ret = parse_select_statement_bytes(args.dialect, Trimmed(args.input))
           /\ ret = parse_select_statement(args.dialect, Padded(args.input))
    /\ op = "parse_create_table" =>
           /\ ret = parse_create_table_bytes(args.dialect, Trimmed(args.input))
           /\ ret = parse_create_table(args.dialect, Padded(args.input))
    /\ op = "parse_alter_table" =>
           /\ ret = parse_alter_table_bytes(args.dialect, Trimmed(args.input))
           /\ ret = parse_alter_table(args.dialect, Padded(args.input))
    /\ op = "parse_key_specification_string" =>
           /\ ret = parse_key_specification_bytes(args.dialect,
                                                  Trimmed(args.input))
           /\ ret = parse_key_specification_string(args.dialect,
                                                   Padded(args.input))

\* A text with whitespace on both sides parsed, where its bytes as they are
\* do not.
C4_Witness ==
    /\ op = "parse_query"
    /\ Len(args.input) > 2
    /\ Head(args.input) = WS /\ args.input[Len(args.input)] = WS
    /\ ret.ok
    /\ ~parse_query_bytes(args.dialect, args.input).ok

EntryPoints ==
    {"parse_query_bytes", "parse_query", "from_str",
     "parse_select_statement_bytes", "parse_select_statement",
     "parse_create_table_bytes", "parse_create_table",
     "parse_alter_table_bytes", "parse_alter_table",
     "parse_key_specification_bytes", "parse_key_specification_string"}

\* C5: an entry point that fails returns the one error "failed to parse
\* query" and no node, whatever the cause; one that succeeds returns a node
\* and no error.
C5_OneOpaqueError ==
    op \in EntryPoints =>
        IF ret.ok THEN DOMAIN ret = {"ok", "val"}
        ELSE ret = Err("failed to parse query")

\* alter_table_statement succeeded and left something: the entry point
\* returned the error.
C5_Witness ==
    /\ op = "parse_alter_table"
    /\ alter_table_statement(args.dialect, Trimmed(args.input)).ok
    /\ alter_table_statement(args.dialect, Trimmed(args.input)).rem # <<>>
    /\ ret = Err("failed to parse query")

\* C6: query_type returns, for each of the 20 variants, a non-empty sequence
\* of upper-case keywords that is the same for every node the variant may
\* own; Select and CompoundSelect both give SELECT, and any other two
\* variants give different strings.
C6_QueryTypeTotalAndFixed ==
    /\ {q.variant : q \in AllQueries} = VariantSet
    /\ Cardinality(VariantSet) = 20
    /\ op = "query_type" =>
           /\ ret # <<>>
           /\ \A k \in DOMAIN ret : ret[k] \in UpperKeywords
           /\ args.q.variant \in {"Select", "CompoundSelect"} => ret = <<"SELECT">>
           /\ \A q \in AllQueries :
                  query_type(q) = ret <=>
                      \/ q.variant = args.q.variant
                      \/ {q.variant, args.q.variant} = {"Select", "CompoundSelect"}

\* query_type was applied to a compound select and gave SELECT.
C6_Witness ==
    /\ op = "query_type"
    /\ args.q.variant = "CompoundSelect"
    /\ ret = <<"SELECT">>

\* C7: when parse_query(D, T) succeeds with Q, parse_query(D, format(Q))
\* succeeds too and gives a query equal to Q.
C7_RoundTrip ==
    (op = "parse_query" /\ ret.ok) =>
        LET again == parse_query(args.dialect, fmt(ret.val))
        IN  again.ok /\ SqlQueryEq(again.val, ret.val)

\* The input with its quoted identifiers in the quoting of the dialect given:
\* the same logical statement written for that dialect.
Requoted(dialect, t) ==
    [k \in DOMAIN t |->
        IF \E n \in Names : t[k] \in {BacktickOf[n], DoubleOf[n]}
        THEN LET n == CHOOSE n \in Names : t[k] \in {BacktickOf[n], DoubleOf[n]}
             IN  IF dialect = "MySQL" THEN BacktickOf[n] ELSE DoubleOf[n]
        ELSE t[k]]

\* C8: formatting a SqlQuery gives exactly what the renderer of the node it
\* owns gives, for each of the 20 variants: the dispatch layer adds, drops
\* and changes nothing; the text depends on the value alone, so a parsed
\* query formats to the same text whichever dialect parsed it.
C8_FmtDelegates ==
    /\ {q.variant : q \in AllQueries} = VariantSet
    /\ op = "fmt" =>
           /\ args.q.node.type = PayloadOf[args.q.variant]
           /\ ret = Render(args.q.node.type, args.q.node)
    /\ (op = "parse_query" /\ ret.ok) =>
           /\ fmt(ret.val) = Render(ret.val.node.type, ret.val.node)
           /\ \A d \in Dialects :
                  LET other == parse_query(d, Requoted(d, args.input))
                  IN  other.ok /\ fmt(other.val) = fmt(ret.val)

\* A compound select was formatted to its node's rendering.
C8_Witness ==
    /\ op = "fmt"
    /\ args.q.variant = "CompoundSelect"
    /\ ret = <<"SELECT", "BQ(t)", "UNION", "SELECT", "BQ(u)">>

\* C9: two SqlQuery values are equal exactly when their variants and their
\* nodes are, and equal values hash alike; a query parsed under one dialect,
\* the same statement parsed under the other and the value built directly
\* are equal and hash alike, the dialect being no part of the value.
C9_StructuralEqualityAndHash ==
    /\ op = "eq_hash" =>
           /\ ret.eq <=> (args.a.variant = args.b.variant /\ args.a.node = args.b.node)
           /\ ret.eq => ret.hash_a = ret.hash_b
    /\ (op = "parse_query" /\ ret.ok) =>
           /\ \E q \in AllQueries :
                  SqlQueryEq(q, ret.val) /\ SqlQueryHash(q) = SqlQueryHash(ret.val)
           /\ \A d \in Dialects :
                  LET other == parse_query(d, Requoted(d, args.input))
                  IN  /\ other.ok
                      /\ SqlQueryEq(other.val, ret.val)
                      /\ SqlQueryHash(other.val) = SqlQueryHash(ret.val)

\* A statement with a backtick-quoted identifier parsed under MySQL: its
\* PostgreSQL spelling differs.
C9_Witness ==
    /\ op = "parse_query"
    /\ args.dialect = "MySQL"
    /\ \E k \in DOMAIN args.input : args.input[k] = BacktickOf["t"]
    /\ ret.ok
    /\ Requoted("PostgreSQL", args.input) # args.input

\* The variants sql_query returns on some input, under a dialect.
ReturnedVariants(dialect) ==
    {sql_query(dialect, i).out.variant : i \in {j \in Inputs : sql_query(dialect, j).ok}}

\* Whether, under each dialect, every variant is returned by sql_query on
\* some input, on which its sub-parser succeeds and every earlier one fails.
Unshadowed ==
    [d \in Dialects |->
        /\ ReturnedVariants(d) = VariantSet
        /\ \A k \in DOMAIN CanonicalOrder :
               \E i \in Inputs :
                   /\ Nth(k, d, i).ok
                   /\ \A j \in 1..(k - 1) : ~Nth(j, d, i).ok
                   /\ sql_query(d, i).ok
                   /\ sql_query(d, i).out.variant = CanonicalOrder[k]]

C11_TargetedImpliesGeneric ==
    /\ (op = "parse_create_table_bytes" /\ ret.ok) =>
           parse_query_bytes(args.dialect, args.input)
               = Ok(Wrap("CreateTable", ret.val))
    /\ (op = "parse_select_statement_bytes" /\ ret.ok) =>
           parse_query_bytes(args.dialect, args.input).ok
    /\ (op = "parse_alter_table_bytes" /\ ret.ok) =>
           parse_query_bytes(args.dialect, args.input).ok

\* parse_alter_table_bytes returned a node, on bytes twelve earlier
\* alternatives of the dispatcher are tried on first.
C11_Witness ==
    /\ op = "parse_alter_table_bytes"
    /\ ret.ok
    /\ parse_query_bytes(args.dialect, args.input).val.variant = "AlterTable"

==========================================================================
